---- MODULE Spec2Model ----
(***************************************************************************)
(* Session engine, scoring engine and ranking cache of the quiz backend    *)
(* (supabase/functions/make-server-4d5764ce).  Every request is a process  *)
(* that runs its handler one key-value store call at a time; the store is  *)
(* the only shared state, and requests interleave between store calls.     *)
(***************************************************************************)
EXTENDS Integers, Sequences, FiniteSets, TLC

\* ------------------------------------------------------------------ bounds
\* Requests budget in one behaviour of Spec (two users, two requests in flight).
MaxRequests == 3
\* Requests budget in one behaviour of SpecRace (one user, two requests in flight).
MaxRaceRequests == 4
\* Requests budget in one behaviour of SpecSolo (one request at a time).
MaxSoloRequests == 5
\* Requests budget in one behaviour of SpecStart (startSession with any input).
MaxStartRequests == 2
\* Requests budget in one behaviour of SpecRank (one player, ranking reads, resets).
MaxRankRequests == 5
\* Requests budget in one behaviour of SpecFastest (one player, two runs).
MaxFastestRequests == 7
\* requests of the leaderboard reads
MaxBoardRequests == 2
\* requests beside a reset that runs alone
MaxAdminRequests == 4
\* requests of two registered users and of the ranking reads beside them
MaxFrameRequests == 4

\* ------------------------------------------------------------ the universe
Users == {"u1", "u2"}
Procs == {"p1", "p2"}
Null == "null"
\* An absent record (a kv.get that returns null, an undefined field).
None == [none |-> TRUE]
NoTeam == "undefined"
NoTime == -1

\* Strings a client submits as its answer ("" is the time-out submission).
AnswerTexts == {"", "a", "b"}

\* Content owned by the CMS, read-only here: questions by key.
Question(id, correct, team) ==
  [id |-> id, question |-> "prompt", options |-> <<"a", "b", "c", "d">>,
   correctAnswer |-> correct, team |-> team]

QuestionStore(key) ==
  CASE key = "x1" -> Question("x1", "a", "general")
    [] key = "x2" -> Question("x2", "b", "A")
    [] OTHER -> None

\* Quizzes by key; "q2" has no question yet, "q3" has one question of team A
\* and the id of a deleted question, "q0" does not exist.
QuizStore(key) ==
  CASE key = "q1" -> [id |-> "q1", team |-> "general", questionIds |-> <<"x1", "x2">>, timeLimit |-> 30]
    [] key = "q2" -> [id |-> "q2", team |-> "general", questionIds |-> <<>>, timeLimit |-> 0]
    [] key = "q3" -> [id |-> "q3", team |-> "A", questionIds |-> <<"x2", "x9">>, timeLimit |-> 0]
    [] OTHER -> None

\* The quizzes a session can be started on.
Quizzes == {"q1", "q3"}

\* Clock values (Date.now() in ms, counted from 0).
Times == {0, 1}
\* Clock values at which sessions start: Times, and the start of a later run.
StartTimes == Times \cup {5000}
SessionIds == [user : Users, quiz : Quizzes, time : StartTimes]

\* ------------------------------------------------------------------- state
VARIABLES
  now,        \* the server clock
  kvSession,  \* {sessionId} -> Session JSON
  kvActive,   \* user:{userId}:active_session -> sessionId
  kvProfile,  \* user_profile:{userId} -> UserProfile JSON
  kvFastest,  \* fastest:{quizId} -> FastestEntry JSON
  kvHistory,  \* ranking:{epochMs}:{userId} -> audit record JSON
  kvCache,    \* ranking:cache -> RankingEntry[] JSON
  kvCacheTs,  \* ranking:cache:timestamp -> epoch-ms string
  proc,       \* each request in flight: its handler, position and locals
  resp,       \* the response returned most recently
  budget      \* requests that may still be budget

vars == <<now, kvSession, kvActive, kvProfile, kvFastest, kvHistory, kvCache, kvCacheTs, proc, resp, budget>>
store == <<kvSession, kvActive, kvProfile, kvFastest, kvHistory, kvCache, kvCacheTs>>

Idle == [pc |-> "idle", user |-> Null, answer |-> Null, sid |-> None, sess |-> None,
         prof |-> None, key |-> NoTime, rank |-> None, todo |-> <<>>, keys |-> {},
         call |-> Null, limit |-> 0]
NoResp == [op |-> Null, user |-> Null, status |-> Null, body |-> None]

Ok(op, u, body) == [op |-> op, user |-> u, status |-> "ok", body |-> body]
Err(op, u, msg) == [op |-> op, user |-> u, status |-> "error", body |-> [error |-> msg]]

InitStore(requests) ==
  /\ budget = requests
  /\ now = 0
  /\ kvSession = [s \in SessionIds |-> None]
  /\ kvActive = [u \in Users |-> None]
  /\ kvProfile = [u \in Users |-> IF u = "u1" THEN [id |-> u, name |-> u, totalScore |-> 0, gamesPlayed |-> 0] ELSE None]
  /\ kvFastest = [q \in Quizzes |-> None]
  /\ kvHistory = {}
  /\ kvCache = None
  /\ kvCacheTs = NoTime
  /\ proc = [p \in Procs |-> Idle]
  /\ resp = NoResp

Init == InitStore(MaxRequests)

\* A request slot is free and the request budget is not used up.  Which free
\* slot a request takes is immaterial, so "p2" is taken only while "p1" is busy.
CanIssue(p) ==
  /\ proc[p].pc = "idle"
  /\ budget > 0
  /\ p = "p2" => proc["p1"].pc # "idle"

\* The handler of p returns r.
Return(p, r) ==
  /\ proc' = [proc EXCEPT ![p] = Idle]
  /\ resp' = r

\* The handler of p moves on with new locals.
Goto(p, l) ==
  /\ proc' = [proc EXCEPT ![p] = l]
  /\ UNCHANGED resp

\* The clock advances.
Tick ==
  /\ now + 1 \in Times
  /\ now' = now + 1
  /\ UNCHANGED <<store, proc, resp, budget>>

\* The clock jumps to a later value of the given set.
Advance(clock) ==
  /\ \E t \in clock : t > now /\ now' = t
  /\ UNCHANGED <<store, proc, resp, budget>>

\* --------------------------------------------------------- Session engine
TeamFilterAny(q, team) == TRUE
\* questions.filter(q => !team || q.team === team || q.team === 'general')
TeamFilter(q, team) == team = NoTeam \/ q.team = team \/ q.team = "general"

\* kv.mget(ids) then filter(q => q !== null): the stored questions, in order.
RECURSIVE Mget(_)
Mget(ids) ==
  IF ids = <<>> THEN <<>>
  ELSE LET rest == Mget(Tail(ids))
           q == QuestionStore(Head(ids))
       IN IF q = None THEN rest ELSE <<q>> \o rest

RECURSIVE FilterTeam(_, _)
FilterTeam(qs, team) ==
  IF qs = <<>> THEN <<>>
  ELSE IF TeamFilter(Head(qs), team) THEN <<Head(qs)>> \o FilterTeam(Tail(qs), team)
       ELSE FilterTeam(Tail(qs), team)

Swap(arr, i, j) == [arr EXCEPT ![i] = arr[j], ![j] = arr[i]]

\* Fisher-Yates: for i from the last index down to the second, swap i with a
\* random j at or below it.  The set of all outcomes (indices are 1-based).
RECURSIVE ShuffleFrom(_, _)
ShuffleFrom(arr, i) ==
  IF i <= 1 THEN {arr}
  ELSE UNION {ShuffleFrom(Swap(arr, i, j), i - 1) : j \in 1..i}

ShuffleArray(arr) == ShuffleFrom(arr, Len(arr))

\* `user:${userId}:active_session`: one pointer key for each user
ActiveKeyShared(u) == "u1"
ActiveKey(u) == u

SessionIdOfQuiz(u, quizId, t) == [user |-> "u1", quiz |-> quizId, time |-> t]
\* `session:${userId}:${quizId}:${Date.now()}`
SessionId(u, quizId, t) == [user |-> u, quiz |-> quizId, time |-> t]

NewSession(sid, u, quizId, team, quiz, questions, t) ==
  [sessionId |-> sid, userId |-> u, quizId |-> quizId,
   team |-> IF team # NoTeam THEN team ELSE quiz.team,
   questions |-> questions, currentQuestion |-> 0, score |-> 0,
   answers |-> <<>>, startedAt |-> t, status |-> "active", completedAt |-> NoTime]

StartResult(sess, quiz) ==
  [sessionId |-> sess.sessionId, totalQuestions |-> Len(sess.questions),
   quizId |-> sess.quizId, timeLimit |-> IF quiz.timeLimit # 0 THEN quiz.timeLimit ELSE 30]

\* POST quiz/start: the argument check, kv.get(quizId), kv.mget(questionIds),
\* then the shuffle and the construction of the session record.  The quiz and
\* its questions are read-only content, so the two reads are one step.
StartSession(p, u, quizId, team) ==
  /\ CanIssue(p)
  /\ budget' = budget - 1
  /\ UNCHANGED <<now, store>>
  /\ IF quizId = "" THEN Return(p, Err("start", u, "Quiz is required"))
     ELSE LET quiz == QuizStore(quizId) IN
       IF quiz = None THEN Return(p, Err("start", u, "Quiz not found"))
       ELSE IF Len(quiz.questionIds) = 0
         THEN Return(p, Err("start", u, "No questions available for this quiz"))
       ELSE LET parsed == FilterTeam(Mget(quiz.questionIds), team) IN
         IF Len(parsed) = 0
           THEN Return(p, Err("start", u, "No questions available for this team"))
         ELSE \E shuffled \in ShuffleArray(parsed) :
           LET sid == SessionId(u, quizId, now) IN
           Goto(p, [Idle EXCEPT !.pc = "start_set_session", !.user = u, !.sid = sid,
                     !.sess = NewSession(sid, u, quizId, team, quiz, shuffled, now)])

\* await kv.set(sessionId, JSON.stringify(sessionData))
StartSetSession(p) ==
  /\ proc[p].pc = "start_set_session"
  /\ kvSession' = [kvSession EXCEPT ![proc[p].sid] = proc[p].sess]
  /\ Goto(p, [proc[p] EXCEPT !.pc = "start_set_pointer"])
  /\ UNCHANGED <<now, kvActive, kvProfile, kvFastest, kvHistory, kvCache, kvCacheTs, budget>>

\* await kv.set(`user:${userId}:active_session`, sessionId), then the return
StartSetPointer(p) ==
  /\ proc[p].pc = "start_set_pointer"
  /\ kvActive' = [kvActive EXCEPT ![ActiveKey(proc[p].user)] = proc[p].sid]
  /\ Return(p, Ok("start", proc[p].user, StartResult(proc[p].sess, QuizStore(proc[p].sess.quizId))))
  /\ UNCHANGED <<now, kvSession, kvProfile, kvFastest, kvHistory, kvCache, kvCacheTs, budget>>

\* The question as the client sees it.
ProjectionWithAnswer(q) == q
Projection(q) == [id |-> q.id, question |-> q.question, options |-> q.options]

\* sessionData.questions[sessionData.currentQuestion] is undefined
NoQuestionAt(sess) == sess.currentQuestion >= Len(sess.questions)
QuestionAt(sess) == sess.questions[sess.currentQuestion + 1]

CurrentQuestionUnchecked(u, sid, sess) ==
  IF sid = None THEN Err("current", u, "No active quiz session")
  ELSE IF sess = None THEN Err("current", u, "Session not found")
  ELSE IF NoQuestionAt(sess) THEN Err("current", u, "No more questions")
  ELSE Ok("current", u,
          [question |-> Projection(QuestionAt(sess)),
           currentQuestion |-> sess.currentQuestion + 1,
           totalQuestions |-> Len(sess.questions),
           score |-> sess.score])

\* What getCurrentQuestion makes of the pointer and the record it read.
CurrentQuestionOf(u, sid, sess) ==
  IF sid = None THEN Err("current", u, "No active quiz session")
  ELSE IF sess = None THEN Err("current", u, "Session not found")
  ELSE IF sess.status # "active" THEN Err("current", u, "Quiz session is not active")
  ELSE IF NoQuestionAt(sess) THEN Err("current", u, "No more questions")
  ELSE Ok("current", u,
          [question |-> Projection(QuestionAt(sess)),
           currentQuestion |-> sess.currentQuestion + 1,
           totalQuestions |-> Len(sess.questions),
           score |-> sess.score])

\* GET quiz/current: kv.get of the pointer
CurrentGetPointer(p, u) ==
  /\ CanIssue(p)
  /\ budget' = budget - 1
  /\ UNCHANGED <<now, store>>
  /\ IF kvActive[ActiveKey(u)] = None THEN Return(p, CurrentQuestionOf(u, None, None))
     ELSE Goto(p, [Idle EXCEPT !.pc = "current_get_session", !.user = u, !.sid = kvActive[ActiveKey(u)]])

CurrentGetSessionAdvancing(p) ==
  /\ proc[p].pc = "current_get_session"
  /\ LET sess == kvSession[proc[p].sid] IN
     /\ Return(p, CurrentQuestionOf(proc[p].user, proc[p].sid, sess))
     /\ kvSession' = IF sess = None \/ NoQuestionAt(sess) THEN kvSession
                     ELSE [kvSession EXCEPT ![proc[p].sid].currentQuestion = @ + 1]
  /\ UNCHANGED <<now, kvActive, kvProfile, kvFastest, kvHistory, kvCache, kvCacheTs, budget>>

\* kv.get of the session record, the checks and the return
CurrentGetSession(p) ==
  /\ proc[p].pc = "current_get_session"
  /\ Return(p, CurrentQuestionOf(proc[p].user, proc[p].sid, kvSession[proc[p].sid]))
  /\ UNCHANGED <<now, store, budget>>

IsCorrectNonEmpty(answer, q) == answer # ""
\* answer === currentQuestion.correctAnswer
IsCorrect(answer, q) == answer = q.correctAnswer
PointsEarnedHalf(isCorrect) == IF isCorrect THEN 50 ELSE 0
PointsEarned(isCorrect) == IF isCorrect THEN 100 ELSE 0

AnsweredInPlace(sess, answer) ==
  LET q == QuestionAt(sess)
      c == IsCorrect(answer, q)
  IN [sess EXCEPT !.score = @ + PointsEarned(c),
                  !.answers = Append(@, [questionId |-> q.id, answer |-> answer,
                                         correct |-> c, points |-> PointsEarned(c)])]

AnsweredOnStored(sess, answer) ==
  LET q == QuestionAt(sess)
      c == IsCorrect(answer, q)
      stored == IF kvSession[sess.sessionId] = None THEN sess ELSE kvSession[sess.sessionId]
  IN [stored EXCEPT !.score = @ + PointsEarned(c),
                    !.answers = Append(@, [questionId |-> q.id, answer |-> answer,
                                           correct |-> c, points |-> PointsEarned(c)]),
                    !.currentQuestion = @ + 1]

\* The record submitAnswer writes back: score, answer list and index updated.
Answered(sess, answer) ==
  LET q == QuestionAt(sess)
      c == IsCorrect(answer, q)
  IN [sess EXCEPT !.score = @ + PointsEarned(c),
                  !.answers = Append(@, [questionId |-> q.id, answer |-> answer,
                                         correct |-> c, points |-> PointsEarned(c)]),
                  !.currentQuestion = @ + 1]

HasMoreQuestionsInclusive(sess) == sess.currentQuestion <= Len(sess.questions)
HasMoreQuestions(sess) == sess.currentQuestion < Len(sess.questions)

SubmitResult(old, new, answer) ==
  LET q == QuestionAt(old)
      c == IsCorrect(answer, q)
  IN [correct |-> c, correctAnswer |-> q.correctAnswer, points |-> PointsEarned(c),
      totalScore |-> new.score, hasMoreQuestions |-> HasMoreQuestions(new)]

\* POST quiz/answer: kv.get of the pointer
SubmitGetPointer(p, u, answer) ==
  /\ CanIssue(p)
  /\ budget' = budget - 1
  /\ UNCHANGED <<now, store>>
  /\ IF kvActive[ActiveKey(u)] = None THEN Return(p, Err("submit", u, "No active quiz session"))
     ELSE Goto(p, [Idle EXCEPT !.pc = "submit_get_session", !.user = u,
                    !.answer = answer, !.sid = kvActive[ActiveKey(u)]])

\* kv.get of the session record; the record is updated in memory.  Reading
\* correctAnswer of an undefined question throws a TypeError.
SubmitGetSession(p) ==
  /\ proc[p].pc = "submit_get_session"
  /\ UNCHANGED <<now, store, budget>>
  /\ LET sess == kvSession[proc[p].sid] IN
     IF sess = None THEN Return(p, Err("submit", proc[p].user, "Session not found"))
     ELSE IF NoQuestionAt(sess) THEN Return(p, Err("submit", proc[p].user, "TypeError"))
     ELSE Goto(p, [proc[p] EXCEPT !.pc = "submit_set_session", !.sess = sess])

\* await kv.set(sessionId, JSON.stringify(sessionData)), then the return
SubmitSetSession(p) ==
  /\ proc[p].pc = "submit_set_session"
  /\ LET new == Answered(proc[p].sess, proc[p].answer) IN
     /\ kvSession' = [kvSession EXCEPT ![proc[p].sid] = new]
     /\ Return(p, Ok("submit", proc[p].user, SubmitResult(proc[p].sess, new, proc[p].answer)))
  /\ UNCHANGED <<now, kvActive, kvProfile, kvFastest, kvHistory, kvCache, kvCacheTs, budget>>

\* ---------------------------------------------------------- Scoring engine
\* new Date(completedAt).getTime() - new Date(startedAt).getTime(), or 0
DurationMs(sess) == IF sess.completedAt # NoTime THEN sess.completedAt - sess.startedAt ELSE 0

CountAnswers(answers) == Len(answers)
\* sessionData.answers.filter(a => a.correct).length
RECURSIVE CorrectAnswers(_)
CorrectAnswers(answers) ==
  IF answers = <<>> THEN 0
  ELSE (IF Head(answers).correct THEN 1 ELSE 0) + CorrectAnswers(Tail(answers))

FinishResult(sess) ==
  [finalScore |-> sess.score, totalQuestions |-> Len(sess.questions),
   correctAnswers |-> CorrectAnswers(sess.answers), durationMs |-> DurationMs(sess)]

FinishGetPointerLenient(p, u) ==
  /\ CanIssue(p)
  /\ budget' = budget - 1
  /\ UNCHANGED <<now, store>>
  /\ IF kvActive[ActiveKey(u)] = None THEN Return(p, Ok("finish", u, [finalScore |-> 0]))
     ELSE Goto(p, [Idle EXCEPT !.pc = "finish_get_session", !.user = u, !.sid = kvActive[ActiveKey(u)]])

\* POST quiz/finish: kv.get of the pointer
FinishGetPointer(p, u) ==
  /\ CanIssue(p)
  /\ budget' = budget - 1
  /\ UNCHANGED <<now, store>>
  /\ IF kvActive[ActiveKey(u)] = None THEN Return(p, Err("finish", u, "No active quiz session"))
     ELSE Goto(p, [Idle EXCEPT !.pc = "finish_get_session", !.user = u, !.sid = kvActive[ActiveKey(u)]])

\* kv.get of the session record; status and completedAt are set in memory
FinishGetSession(p) ==
  /\ proc[p].pc = "finish_get_session"
  /\ UNCHANGED <<now, store, budget>>
  /\ LET sess == kvSession[proc[p].sid] IN
     IF sess = None THEN Return(p, Err("finish", proc[p].user, "Session not found"))
     ELSE Goto(p, [proc[p] EXCEPT !.pc = "finish_set_session",
                    !.sess = [sess EXCEPT !.status = "completed", !.completedAt = now]])

FinishSetSessionThenCredit(p) ==
  /\ proc[p].pc = "finish_set_session"
  /\ kvSession' = [kvSession EXCEPT ![proc[p].sid] = proc[p].sess]
  /\ Goto(p, [proc[p] EXCEPT !.pc = "update_get_profile"])
  /\ UNCHANGED <<now, kvActive, kvProfile, kvFastest, kvHistory, kvCache, kvCacheTs, budget>>

\* await kv.set(sessionId, JSON.stringify(sessionData))
FinishSetSession(p) ==
  /\ proc[p].pc = "finish_set_session"
  /\ kvSession' = [kvSession EXCEPT ![proc[p].sid] = proc[p].sess]
  /\ Goto(p, [proc[p] EXCEPT !.pc = "finish_del_pointer"])
  /\ UNCHANGED <<now, kvActive, kvProfile, kvFastest, kvHistory, kvCache, kvCacheTs, budget>>

\* await kv.del(`user:${userId}:active_session`)
FinishDelPointer(p) ==
  /\ proc[p].pc = "finish_del_pointer"
  /\ kvActive' = [kvActive EXCEPT ![ActiveKey(proc[p].user)] = None]
  /\ Goto(p, [proc[p] EXCEPT !.pc = "update_get_profile"])
  /\ UNCHANGED <<now, kvSession, kvProfile, kvFastest, kvHistory, kvCache, kvCacheTs, budget>>

UpdateGetProfileCreating(p) ==
  /\ proc[p].pc = "update_get_profile"
  /\ UNCHANGED <<now, store, budget>>
  /\ LET prof == kvProfile[proc[p].user] IN
     IF prof = None
       THEN Goto(p, [proc[p] EXCEPT !.pc = "update_set_profile",
                      !.prof = [id |-> proc[p].user, name |-> proc[p].user, totalScore |-> 0, gamesPlayed |-> 0]])
     ELSE Goto(p, [proc[p] EXCEPT !.pc = "update_set_profile", !.prof = prof])

\* updateUserScore: kv.get of the profile; no profile, no write
UpdateGetProfile(p) ==
  /\ proc[p].pc = "update_get_profile"
  /\ UNCHANGED <<now, store, budget>>
  /\ LET prof == kvProfile[proc[p].user] IN
     IF prof = None THEN Goto(p, [proc[p] EXCEPT !.pc = "track_get_profile"])
     ELSE Goto(p, [proc[p] EXCEPT !.pc = "update_set_profile", !.prof = prof])

CreditedScoreOnly(prof, scoreToAdd) == [prof EXCEPT !.totalScore = @ + scoreToAdd]
\* userProfile.totalScore += scoreToAdd; userProfile.gamesPlayed += 1
Credited(prof, scoreToAdd) ==
  [prof EXCEPT !.totalScore = @ + scoreToAdd, !.gamesPlayed = @ + 1]

\* updateUserScore: kv.set of the profile
UpdateSetProfile(p) ==
  /\ proc[p].pc = "update_set_profile"
  /\ kvProfile' = [kvProfile EXCEPT ![proc[p].user] = Credited(proc[p].prof, proc[p].sess.score)]
  /\ Goto(p, [proc[p] EXCEPT !.pc = "track_get_profile", !.prof = None])
  /\ UNCHANGED <<now, kvSession, kvActive, kvFastest, kvHistory, kvCache, kvCacheTs, budget>>

\* Math.round(averageScore * 10) / 10 of totalScore / gamesPlayed: the
\* nearest tenth, halves upwards, as its integer part and its tenths digit.
Round1(totalScore, gamesPlayed) ==
  LET tenths == (20 * totalScore + gamesPlayed) \div (2 * gamesPlayed)
  IN [int |-> tenths \div 10, frac |-> tenths % 10]

Zero == [int |-> 0, frac |-> 0]

UserStatsUnrounded(userProfile) ==
  IF userProfile = None THEN [totalScore |-> 0, gamesPlayed |-> 0, averageScore |-> Zero]
  ELSE [totalScore |-> userProfile.totalScore, gamesPlayed |-> userProfile.gamesPlayed,
        averageScore |-> IF userProfile.gamesPlayed > 0
                           THEN [int |-> userProfile.totalScore \div userProfile.gamesPlayed, frac |-> 0]
                         ELSE Zero]

\* getUserStats, from the profile read: zeros without a profile
UserStats(userProfile) ==
  IF userProfile = None THEN [totalScore |-> 0, gamesPlayed |-> 0, averageScore |-> Zero]
  ELSE [totalScore |-> userProfile.totalScore, gamesPlayed |-> userProfile.gamesPlayed,
        averageScore |-> IF userProfile.gamesPlayed > 0
                           THEN Round1(userProfile.totalScore, userProfile.gamesPlayed)
                         ELSE Zero]

\* GET user/stats: getUserStats' kv.get of the profile, then the response
StatsGetProfile(p, u) ==
  /\ CanIssue(p)
  /\ budget' = budget - 1
  /\ UNCHANGED <<now, store>>
  /\ Return(p, Ok("stats", u, [stats |-> UserStats(kvProfile[u])]))

FastestEntry(sess, prof) ==
  [userId |-> sess.userId, name |-> prof.name, quizId |-> sess.quizId,
   durationMs |-> DurationMs(sess), score |-> sess.score, completedAt |-> sess.completedAt]

\* trackFastestPlayer: kv.get of the profile; no profile, no record.  The
\* history key takes Date.now() when trackFastestPlayer has returned.
TrackGetProfile(p) ==
  /\ proc[p].pc = "track_get_profile"
  /\ UNCHANGED <<now, store, budget>>
  /\ LET prof == kvProfile[proc[p].sess.userId] IN
     IF prof = None THEN Goto(p, [proc[p] EXCEPT !.pc = "finish_set_history", !.key = now])
     ELSE Goto(p, [proc[p] EXCEPT !.pc = "track_get_fastest", !.prof = prof])

IsFaster(durationMs, current) ==
  durationMs > 0 /\ (current.durationMs = 0 \/ durationMs < current.durationMs)
IsHigherScoreNever(score, current) == FALSE
\* sessionData.score > current.score
IsHigherScore(score, current) == score > current.score

ReplacesOnlyWhenNone(entry, current) == current = None
\* Whether the candidate replaces the stored record (none stored: it does).
Replaces(entry, current) ==
  \/ current = None
  \/ IsFaster(entry.durationMs, current)
  \/ IsHigherScore(entry.score, current)

\* trackFastestPlayer: kv.get of the quiz's record and the comparison
TrackGetFastest(p) ==
  /\ proc[p].pc = "track_get_fastest"
  /\ UNCHANGED <<now, store, budget>>
  /\ IF Replaces(FastestEntry(proc[p].sess, proc[p].prof), kvFastest[proc[p].sess.quizId])
     THEN Goto(p, [proc[p] EXCEPT !.pc = "track_set_fastest"])
     ELSE Goto(p, [proc[p] EXCEPT !.pc = "finish_set_history", !.prof = None, !.key = now])

\* trackFastestPlayer: kv.set of the quiz's record
TrackSetFastest(p) ==
  /\ proc[p].pc = "track_set_fastest"
  /\ kvFastest' = [kvFastest EXCEPT ![proc[p].sess.quizId] = FastestEntry(proc[p].sess, proc[p].prof)]
  /\ Goto(p, [proc[p] EXCEPT !.pc = "finish_set_history", !.prof = None, !.key = now])
  /\ UNCHANGED <<now, kvSession, kvActive, kvProfile, kvHistory, kvCache, kvCacheTs, budget>>

\* `ranking:${Date.now()}:${userId}`
RankingKey(t, u) == [time |-> t, user |-> u]

HistoryRecord(sess) ==
  [userId |-> sess.userId, sessionId |-> sess.sessionId, score |-> sess.score,
   completedAt |-> sess.completedAt]

\* kv.set of the history record: the value stored under a key is replaced
FinishSetHistory(p) ==
  /\ proc[p].pc = "finish_set_history"
  /\ LET k == RankingKey(proc[p].key, proc[p].user) IN
     kvHistory' = {h \in kvHistory : h.key # k} \cup {[key |-> k, value |-> HistoryRecord(proc[p].sess)]}
  /\ Goto(p, [proc[p] EXCEPT !.pc = "invalidate_del_cache", !.key = NoTime])
  /\ UNCHANGED <<now, kvSession, kvActive, kvProfile, kvFastest, kvCache, kvCacheTs, budget>>

\* rankingModule.invalidateCache(): kv.del(CACHE_KEY)
InvalidateDelCache(p) ==
  /\ proc[p].pc = "invalidate_del_cache"
  /\ kvCache' = None
  /\ Goto(p, [proc[p] EXCEPT !.pc = "invalidate_del_timestamp"])
  /\ UNCHANGED <<now, kvSession, kvActive, kvProfile, kvFastest, kvHistory, kvCacheTs, budget>>

\* kv.del(CACHE_TIMESTAMP_KEY), then the response of quiz/finish
InvalidateDelTimestamp(p) ==
  /\ proc[p].pc = "invalidate_del_timestamp"
  /\ kvCacheTs' = NoTime
  /\ Return(p, Ok("finish", proc[p].user, FinishResult(proc[p].sess)))
  /\ UNCHANGED <<now, kvSession, kvActive, kvProfile, kvFastest, kvHistory, kvCache, budget>>

\* ----------------------------------------------------------- Ranking cache
CACHE_TTL_MS == 30000

\* JSON.stringify(ranking) as stored under ranking:cache, and its parse.
Stringify(ranking) == [list |-> ranking]
Parse(cachedRankingStr) == cachedRankingStr.list

\* All orders of the elements of a set, as sequences.
RECURSIVE Orders(_)
Orders(S) ==
  IF S = {} THEN {<<>>}
  ELSE UNION {{<<x>> \o rest : rest \in Orders(S \ {x})} : x \in S}

\* kv.getByPrefix('user_profile:'): the stored profiles, in an order the
\* store chooses.
GetByPrefix(profiles) ==
  {[i \in DOMAIN o |-> profiles[o[i]]] : o \in Orders({u \in DOMAIN profiles : profiles[u] # None})}

RECURSIVE FilterPlayedMore(_)
FilterPlayedMore(profiles) ==
  IF profiles = <<>> THEN <<>>
  ELSE IF Head(profiles).gamesPlayed > 1 THEN <<Head(profiles)>> \o FilterPlayedMore(Tail(profiles))
       ELSE FilterPlayedMore(Tail(profiles))

\* .filter(profile => profile.gamesPlayed > 0)
RECURSIVE FilterPlayed(_)
FilterPlayed(profiles) ==
  IF profiles = <<>> THEN <<>>
  ELSE IF Head(profiles).gamesPlayed > 0 THEN <<Head(profiles)>> \o FilterPlayed(Tail(profiles))
       ELSE FilterPlayed(Tail(profiles))

RECURSIVE InsertBeforeEqual(_, _)
InsertBeforeEqual(profile, sorted) ==
  IF sorted = <<>> THEN <<profile>>
  ELSE IF Head(sorted).totalScore > profile.totalScore
         THEN <<Head(sorted)>> \o InsertBeforeEqual(profile, Tail(sorted))
       ELSE <<profile>> \o sorted

\* profiles.sort((a, b) => b.totalScore - a.totalScore): a stable sort, so a
\* profile goes behind every profile already placed whose score is not lower.
RECURSIVE InsertByScore(_, _)
InsertByScore(profile, sorted) ==
  IF sorted = <<>> THEN <<profile>>
  ELSE IF Head(sorted).totalScore >= profile.totalScore
         THEN <<Head(sorted)>> \o InsertByScore(profile, Tail(sorted))
       ELSE <<profile>> \o sorted

RECURSIVE SortByScore(_, _)
SortByScore(profiles, sorted) ==
  IF profiles = <<>> THEN sorted
  ELSE SortByScore(Tail(profiles), InsertByScore(Head(profiles), sorted))

\* (totalScore / gamesPlayed).toFixed(1): the quotient rounded to one decimal,
\* as its integer part and its tenths digit.
ToFixed1(totalScore, gamesPlayed) ==
  LET tenths == (20 * totalScore + gamesPlayed) \div (2 * gamesPlayed)
  IN [int |-> tenths \div 10, frac |-> tenths % 10]

RankingEntry(profile, index) ==
  [position |-> index + 1, userId |-> profile.id, name |-> profile.name,
   totalScore |-> profile.totalScore, gamesPlayed |-> profile.gamesPlayed,
   average |-> IF profile.gamesPlayed > 0 THEN ToFixed1(profile.totalScore, profile.gamesPlayed)
               ELSE [int |-> 0, frac |-> 0]]

\* calculateRanking, from the profiles as the scan returned them
CalculateRanking(scan) ==
  LET profiles == SortByScore(FilterPlayed(scan), <<>>)
  IN [i \in DOMAIN profiles |-> RankingEntry(profiles[i], i - 1)]

CacheExpiredAtTtl(timestamp, t) == t - timestamp >= CACHE_TTL_MS
\* now - timestamp > RankingModule.CACHE_TTL_MS
CacheExpired(timestamp, t) == t - timestamp > CACHE_TTL_MS

GetRankingFromCacheNever(cachedRankingStr, timestampStr, t) == None
\* getRankingFromCache, from the two values read and Date.now(): the cached
\* string to parse, or null
GetRankingFromCache(cachedRankingStr, timestampStr, t) ==
  IF cachedRankingStr = None \/ timestampStr = NoTime THEN None
  ELSE IF CacheExpired(timestampStr, t) THEN None
  ELSE cachedRankingStr

RankingResult(ranking) == [ranking |-> ranking]

\* ranking.slice(0, limit): a negative limit counts from the end of the list.
Slice0(ranking, limit) ==
  LET len == Len(ranking)
      final == IF limit < 0 THEN (IF len + limit > 0 THEN len + limit ELSE 0)
               ELSE (IF limit < len THEN limit ELSE len)
  IN SubSeq(ranking, 1, final)

\* parseInt(c.req.param('limit')) || 10, for a parameter that is a numeral
LimitOf(param) == IF param = 0 THEN 10 ELSE param

TopResult(ranking, limit) == [topPlayers |-> Slice0(ranking, limit)]

\* The position getUserPosition returns as null.
NoPosition == 0

FindFirstEntry(ranking, userId) == IF ranking = <<>> THEN None ELSE ranking[1]

\* ranking.find(r => r.userId === userId): the first entry of the user
Find(ranking, userId) ==
  LET found == {i \in DOMAIN ranking : ranking[i].userId = userId}
  IN IF found = {} THEN None
     ELSE ranking[CHOOSE i \in found : \A j \in found : i <= j]

PositionResult(ranking, userId) ==
  LET entry == Find(ranking, userId)
  IN [position |-> IF entry # None THEN entry.position ELSE NoPosition]

\* What the route of the request with locals l answers from the list
\* getGlobalRanking returned.
RankingResponse(l, ranking) ==
  IF l.call = "top" THEN Ok("top", Null, TopResult(ranking, l.limit))
  ELSE IF l.call = "position" THEN Ok("position", l.user, PositionResult(ranking, l.user))
  ELSE Ok("ranking", Null, RankingResult(ranking))

\* GET ranking: getRankingFromCache's kv.get(CACHE_KEY)
RankGetCache(p) ==
  /\ CanIssue(p)
  /\ budget' = budget - 1
  /\ UNCHANGED <<now, store>>
  /\ Goto(p, [Idle EXCEPT !.pc = "rank_get_timestamp", !.rank = kvCache, !.call = "ranking"])

\* GET ranking/top/:limit: getTopPlayers calls getGlobalRanking
TopGetCache(p, param) ==
  /\ CanIssue(p)
  /\ budget' = budget - 1
  /\ UNCHANGED <<now, store>>
  /\ Goto(p, [Idle EXCEPT !.pc = "rank_get_timestamp", !.rank = kvCache, !.call = "top",
                !.limit = LimitOf(param)])

\* GET ranking/position: getUserPosition calls getGlobalRanking
PositionGetCache(p, u) ==
  /\ CanIssue(p)
  /\ budget' = budget - 1
  /\ UNCHANGED <<now, store>>
  /\ Goto(p, [Idle EXCEPT !.pc = "rank_get_timestamp", !.rank = kvCache, !.call = "position",
                !.user = u])

RankGetTimestampEvicting(p) ==
  /\ proc[p].pc = "rank_get_timestamp"
  /\ UNCHANGED <<now, kvSession, kvActive, kvProfile, kvFastest, kvHistory, kvCacheTs, budget>>
  /\ LET cachedRanking == GetRankingFromCache(proc[p].rank, kvCacheTs, now) IN
     IF cachedRanking # None
       THEN Return(p, RankingResponse(proc[p], Parse(cachedRanking))) /\ UNCHANGED kvCache
     ELSE /\ Goto(p, [proc[p] EXCEPT !.pc = "rank_calculate", !.rank = None])
          /\ kvCache' = IF proc[p].rank # None /\ kvCacheTs # NoTime THEN None ELSE kvCache

\* kv.get(CACHE_TIMESTAMP_KEY), Date.now() and the checks: a hit returns the
\* list that was read
RankGetTimestamp(p) ==
  /\ proc[p].pc = "rank_get_timestamp"
  /\ UNCHANGED <<now, store, budget>>
  /\ LET cachedRanking == GetRankingFromCache(proc[p].rank, kvCacheTs, now) IN
     IF cachedRanking # None THEN Return(p, RankingResponse(proc[p], Parse(cachedRanking)))
     ELSE Goto(p, [proc[p] EXCEPT !.pc = "rank_calculate", !.rank = None])

\* calculateRanking: kv.getByPrefix('user_profile:'), filter, sort, map
RankCalculate(p) ==
  /\ proc[p].pc = "rank_calculate"
  /\ UNCHANGED <<now, store, budget>>
  /\ \E scan \in GetByPrefix(kvProfile) :
       Goto(p, [proc[p] EXCEPT !.pc = "rank_set_cache", !.todo = scan,
                 !.rank = Stringify(CalculateRanking(scan))])

\* cacheRanking: kv.set(CACHE_KEY, JSON.stringify(ranking))
RankSetCache(p) ==
  /\ proc[p].pc = "rank_set_cache"
  /\ kvCache' = proc[p].rank
  /\ Goto(p, [proc[p] EXCEPT !.pc = "rank_set_timestamp"])
  /\ UNCHANGED <<now, kvSession, kvActive, kvProfile, kvFastest, kvHistory, kvCacheTs, budget>>

\* cacheRanking: kv.set(CACHE_TIMESTAMP_KEY, Date.now().toString()), then
\* the response
RankSetTimestamp(p) ==
  /\ proc[p].pc = "rank_set_timestamp"
  /\ kvCacheTs' = now
  /\ Return(p, RankingResponse(proc[p], Parse(proc[p].rank)))
  /\ UNCHANGED <<now, kvSession, kvActive, kvProfile, kvFastest, kvHistory, kvCache, budget>>

ZeroedScoreOnly(profile) == [profile EXCEPT !.totalScore = 0]
\* { ...profile, totalScore: 0, gamesPlayed: 0 }
ZeroedProfile(profile) == [profile EXCEPT !.totalScore = 0, !.gamesPlayed = 0]

\* POST ranking/reset: resetAllRankings' kv.getByPrefix('user_profile:')
ResetGetProfiles(p) ==
  /\ CanIssue(p)
  /\ budget' = budget - 1
  /\ UNCHANGED <<now, store>>
  /\ \E scan \in GetByPrefix(kvProfile) :
       IF scan = <<>> THEN Goto(p, [Idle EXCEPT !.pc = "reset_del_cache"])
       ELSE Goto(p, [Idle EXCEPT !.pc = "reset_set_profile", !.todo = scan])

\* one turn of the loop: kv.set of the next profile read, with zero totals
ResetSetProfile(p) ==
  /\ proc[p].pc = "reset_set_profile"
  /\ LET profile == Head(proc[p].todo) IN
     kvProfile' = [kvProfile EXCEPT ![profile.id] = ZeroedProfile(profile)]
  /\ IF Tail(proc[p].todo) = <<>> THEN Goto(p, [Idle EXCEPT !.pc = "reset_del_cache"])
     ELSE Goto(p, [proc[p] EXCEPT !.todo = Tail(@)])
  /\ UNCHANGED <<now, kvSession, kvActive, kvFastest, kvHistory, kvCache, kvCacheTs, budget>>

\* this.invalidateCache(): kv.del(CACHE_KEY)
ResetDelCache(p) ==
  /\ proc[p].pc = "reset_del_cache"
  /\ kvCache' = None
  /\ Goto(p, [proc[p] EXCEPT !.pc = "reset_del_timestamp"])
  /\ UNCHANGED <<now, kvSession, kvActive, kvProfile, kvFastest, kvHistory, kvCacheTs, budget>>

\* kv.del(CACHE_TIMESTAMP_KEY)
ResetDelTimestamp(p) ==
  /\ proc[p].pc = "reset_del_timestamp"
  /\ kvCacheTs' = NoTime
  /\ Goto(p, [proc[p] EXCEPT !.pc = "reset_get_fastest"])
  /\ UNCHANGED <<now, kvSession, kvActive, kvProfile, kvFastest, kvHistory, kvCache, budget>>

ResetResult == [success |-> TRUE]

\* resetAllFastest: kv.getKeysByPrefix('fastest:'); no key, no delete
ResetGetFastestKeys(p) ==
  /\ proc[p].pc = "reset_get_fastest"
  /\ UNCHANGED <<now, store, budget>>
  /\ LET keys == {q \in DOMAIN kvFastest : kvFastest[q] # None} IN
     IF keys = {} THEN Return(p, Ok("reset", Null, ResetResult))
     ELSE Goto(p, [proc[p] EXCEPT !.pc = "reset_mdel_fastest", !.keys = keys])

\* getFastestByQuiz: the record stored for the quiz, or null
GetFastestByQuiz(fastest, quizId) == fastest[quizId]

ResetMdelKeeping(p) ==
  /\ proc[p].pc = "reset_mdel_fastest"
  /\ Return(p, Ok("reset", Null, ResetResult))
  /\ UNCHANGED <<now, store, budget>>

\* resetAllFastest: kv.mdel(keys), then the response
ResetMdelFastest(p) ==
  /\ proc[p].pc = "reset_mdel_fastest"
  /\ kvFastest' = [q \in DOMAIN kvFastest |-> IF q \in proc[p].keys THEN None ELSE kvFastest[q]]
  /\ Return(p, Ok("reset", Null, ResetResult))
  /\ UNCHANGED <<now, kvSession, kvActive, kvProfile, kvHistory, kvCache, kvCacheTs, budget>>

\* ------------------------------------------------------- account deletion
\* DELETE user/profile: kv.get of the pointer.  authModule.deleteUser is the
\* identity provider's and is not modelled.
DeleteGetPointer(p, u) ==
  /\ CanIssue(p)
  /\ budget' = budget - 1
  /\ UNCHANGED <<now, store>>
  /\ IF kvActive[ActiveKey(u)] = None THEN Return(p, Ok("delete", u, [success |-> TRUE]))
     ELSE Goto(p, [Idle EXCEPT !.pc = "delete_del_session", !.user = u, !.sid = kvActive[ActiveKey(u)]])

\* await kv.del(activeSession)
DeleteDelSession(p) ==
  /\ proc[p].pc = "delete_del_session"
  /\ kvSession' = [kvSession EXCEPT ![proc[p].sid] = None]
  /\ Goto(p, [proc[p] EXCEPT !.pc = "delete_del_pointer"])
  /\ UNCHANGED <<now, kvActive, kvProfile, kvFastest, kvHistory, kvCache, kvCacheTs, budget>>

\* await kv.del(`user:${user.id}:active_session`), then the response
DeleteDelPointer(p) ==
  /\ proc[p].pc = "delete_del_pointer"
  /\ kvActive' = [kvActive EXCEPT ![ActiveKey(proc[p].user)] = None]
  /\ Return(p, Ok("delete", proc[p].user, [success |-> TRUE]))
  /\ UNCHANGED <<now, kvSession, kvProfile, kvFastest, kvHistory, kvCache, kvCacheTs, budget>>

\* ---------------------------------------------------------- specifications
\* A request of user u arrives and takes slot p.
Begin(p, u) ==
  \/ StartSession(p, u, "q1", NoTeam)
  \/ CurrentGetPointer(p, u)
  \/ \E a \in AnswerTexts : SubmitGetPointer(p, u, a)
  \/ FinishGetPointer(p, u)
  \/ DeleteGetPointer(p, u)

\* The request in slot p makes its next store call.
Step(p) ==
  \/ StartSetSession(p)
  \/ StartSetPointer(p)
  \/ CurrentGetSession(p)
  \/ SubmitGetSession(p)
  \/ SubmitSetSession(p)
  \/ FinishGetSession(p)
  \/ FinishSetSession(p)
  \/ FinishDelPointer(p)
  \/ UpdateGetProfile(p)
  \/ UpdateSetProfile(p)
  \/ TrackGetProfile(p)
  \/ TrackGetFastest(p)
  \/ TrackSetFastest(p)
  \/ FinishSetHistory(p)
  \/ InvalidateDelCache(p)
  \/ InvalidateDelTimestamp(p)
  \/ DeleteDelSession(p)
  \/ DeleteDelPointer(p)

\* Requests of any users, interleaved between store calls.
Next ==
  \/ Tick
  \/ \E p \in Procs, u \in Users : Begin(p, u)
  \/ \E p \in Procs : Step(p)

Spec == Init /\ [][Next]_vars

\* Requests of one user, interleaved between store calls.
InitRace == InitStore(MaxRaceRequests)
NextRace ==
  \/ Tick
  \/ \E p \in Procs : Begin(p, "u1")
  \/ \E p \in Procs : Step(p)

SpecRace == InitRace /\ [][NextRace]_vars

\* Requests of any users, each run to its response before the next arrives.
InitSolo == InitStore(MaxSoloRequests)
NextSolo ==
  \/ Tick
  \/ \E u \in Users : Begin("p1", u)
  \/ Step("p1")

SpecSolo == InitSolo /\ [][NextSolo]_vars

\* The quiz ids and team filters a client passes to POST quiz/start.
QuizIds == {"", "q0", "q1", "q2", "q3"}
TeamFilters == {NoTeam, "A", "B"}

\* startSession requests with any input, interleaved between store calls.
InitStart == InitStore(MaxStartRequests)
NextStart ==
  \/ Tick
  \/ \E p \in Procs, u \in Users, quizId \in QuizIds, team \in TeamFilters :
       StartSession(p, u, quizId, team)
  \/ \E p \in Procs : StartSetSession(p)
  \/ \E p \in Procs : StartSetPointer(p)

SpecStart == InitStart /\ [][NextStart]_vars

\* No request of user u is in flight.
Alone(u) == \A q \in Procs : proc[q].user # u

\* Clock values around the expiry of a cache written at 0.
RankClock == {0, CACHE_TTL_MS, CACHE_TTL_MS + 1}

\* A request of the player u arrives while no other request of u is in flight.
BeginPlayer(p, u) ==
  /\ Alone(u)
  /\ \/ now \in StartTimes /\ StartSession(p, u, "q1", NoTeam)
     \/ SubmitGetPointer(p, u, "a")
     \/ FinishGetPointer(p, u)

StepRank(p) ==
  \/ StartSetSession(p)
  \/ StartSetPointer(p)
  \/ SubmitGetSession(p)
  \/ SubmitSetSession(p)
  \/ FinishGetSession(p)
  \/ FinishSetSession(p)
  \/ FinishDelPointer(p)
  \/ UpdateGetProfile(p)
  \/ UpdateSetProfile(p)
  \/ TrackGetProfile(p)
  \/ TrackGetFastest(p)
  \/ TrackSetFastest(p)
  \/ FinishSetHistory(p)
  \/ InvalidateDelCache(p)
  \/ InvalidateDelTimestamp(p)
  \/ RankGetTimestamp(p)
  \/ RankCalculate(p)
  \/ RankSetCache(p)
  \/ RankSetTimestamp(p)
  \/ ResetSetProfile(p)
  \/ ResetDelCache(p)
  \/ ResetDelTimestamp(p)
  \/ ResetGetFastestKeys(p)
  \/ ResetMdelFastest(p)

\* One player, whose requests follow one another in slot "p1", with ranking
\* reads and ranking resets of other users interleaved between store calls.
InitRank == InitStore(MaxRankRequests)
NextRank ==
  \/ Advance(RankClock)
  \/ BeginPlayer("p1", "u1")
  \/ \E p \in Procs : RankGetCache(p)
  \/ \E p \in Procs : ResetGetProfiles(p)
  \/ \E p \in Procs : StepRank(p)

SpecRank == InitRank /\ [][NextRank]_vars

InReset(p) ==
  proc[p].pc \in {"reset_set_profile", "reset_del_cache", "reset_del_timestamp",
                  "reset_get_fastest", "reset_mdel_fastest"}

\* As SpecRank, with slot "p1" kept apart: the clock stands still while a
\* request runs in "p1", and a reset in "p1" starts while "p2" is idle and
\* runs with no request beside it.  A reset in "p2" runs beside the
\* request in "p1".
InitAdmin == InitStore(MaxAdminRequests)
NextAdmin ==
  \/ proc["p1"].pc = "idle" /\ Advance(RankClock)
  \/ BeginPlayer("p1", "u1")
  \/ RankGetCache("p1")
  \/ ~InReset("p1") /\ RankGetCache("p2")
  \/ proc["p2"].pc = "idle" /\ ResetGetProfiles("p1")
  \/ ~InReset("p1") /\ ResetGetProfiles("p2")
  \/ \E p \in Procs : StepRank(p)

SpecAdmin == InitAdmin /\ [][NextAdmin]_vars

\* Clock values of two runs: a first run of 0 or 5000 ms, a second one that
\* starts at 5000 and takes 0, 3000, 5000 or 8000 ms.
FastestClock == {0, 5000, 8000, 10000, 13000}

StepFastest(p) ==
  \/ StartSetSession(p)
  \/ StartSetPointer(p)
  \/ SubmitGetSession(p)
  \/ SubmitSetSession(p)
  \/ FinishGetSession(p)
  \/ FinishSetSession(p)
  \/ FinishDelPointer(p)
  \/ UpdateGetProfile(p)
  \/ UpdateSetProfile(p)
  \/ TrackGetProfile(p)
  \/ TrackGetFastest(p)
  \/ TrackSetFastest(p)
  \/ FinishSetHistory(p)
  \/ InvalidateDelCache(p)
  \/ InvalidateDelTimestamp(p)

\* One player with a profile who plays run after run, one request at a time.
InitFastest == InitStore(MaxFastestRequests)
NextFastest ==
  \/ Advance(FastestClock)
  \/ now \in StartTimes /\ StartSession("p1", "u1", "q1", NoTeam)
  \/ \E a \in {"a", "b"} : SubmitGetPointer("p1", "u1", a)
  \/ FinishGetPointer("p1", "u1")
  \/ StepFastest("p1")

SpecFastest == InitFastest /\ [][NextFastest]_vars

\* The totals of a profile after earlier games, whose session records have
\* ids outside SessionIds: no game, one game with no, one or two correct
\* answers, three games with one correct answer.
PlayedTotals ==
  {[totalScore |-> 0, gamesPlayed |-> 0], [totalScore |-> 0, gamesPlayed |-> 1],
   [totalScore |-> 100, gamesPlayed |-> 1], [totalScore |-> 200, gamesPlayed |-> 1],
   [totalScore |-> 100, gamesPlayed |-> 3]}

ProfileWith(u, totals) ==
  IF totals = None THEN None
  ELSE [id |-> u, name |-> u, totalScore |-> totals.totalScore, gamesPlayed |-> totals.gamesPlayed]

\* The limit parameters a client passes to GET ranking/top/:limit.
LimitParams == {-1, 0, 1, 1000}

\* The leaderboard reads over the profiles of users who have played or not.
InitBoard ==
  /\ budget = MaxBoardRequests
  /\ now = 0
  /\ kvSession = [s \in SessionIds |-> None]
  /\ kvActive = [u \in Users |-> None]
  /\ \E totals \in [Users -> PlayedTotals \cup {None}] :
       kvProfile = [u \in Users |-> ProfileWith(u, totals[u])]
  /\ kvFastest = [q \in Quizzes |-> None]
  /\ kvHistory = {}
  /\ kvCache = None
  /\ kvCacheTs = NoTime
  /\ proc = [p \in Procs |-> Idle]
  /\ resp = NoResp

StepBoard(p) ==
  \/ RankGetTimestamp(p)
  \/ RankCalculate(p)
  \/ RankSetCache(p)
  \/ RankSetTimestamp(p)

NextBoard ==
  \/ Advance(RankClock)
  \/ \E p \in Procs : RankGetCache(p)
  \/ \E p \in Procs, param \in LimitParams : TopGetCache(p, param)
  \/ \E p \in Procs, u \in Users : PositionGetCache(p, u)
  \/ \E p \in Procs, u \in Users : StatsGetProfile(p, u)
  \/ \E p \in Procs : StepBoard(p)

SpecBoard == InitBoard /\ [][NextBoard]_vars

\* Both users are registered and neither has played.
InitFrame ==
  /\ budget = MaxFrameRequests
  /\ now = 0
  /\ kvSession = [s \in SessionIds |-> None]
  /\ kvActive = [u \in Users |-> None]
  /\ kvProfile = [u \in Users |-> [id |-> u, name |-> u, totalScore |-> 0, gamesPlayed |-> 0]]
  /\ kvFastest = [q \in Quizzes |-> None]
  /\ kvHistory = {}
  /\ kvCache = None
  /\ kvCacheTs = NoTime
  /\ proc = [p \in Procs |-> Idle]
  /\ resp = NoResp

\* A request of the quiz or of the statistics of user u arrives while no
\* other request of u is in flight.
BeginFrame(p, u) ==
  /\ Alone(u)
  /\ \/ \E quizId \in Quizzes : StartSession(p, u, quizId, NoTeam)
     \/ CurrentGetPointer(p, u)
     \/ SubmitGetPointer(p, u, "b")
     \/ FinishGetPointer(p, u)
     \/ StatsGetProfile(p, u)

StepFrame(p) ==
  \/ StepFastest(p)
  \/ CurrentGetSession(p)
  \/ StepBoard(p)

\* The quiz and statistics requests of two registered users, interleaved
\* between store calls at one clock value, and ranking reads beside them.
NextFrame ==
  \/ \E p \in Procs, u \in Users : BeginFrame(p, u)
  \/ RankGetCache("p2")
  \/ \E p \in Procs : StepFrame(p)

SpecFrame == InitFrame /\ [][NextFrame]_vars

\* ------------------------------------------------------------------ claims
Stored(s) == kvSession[s] # None
ActiveRecords(u) ==
  {s \in SessionIds : Stored(s) /\ kvSession[s].userId = u /\ kvSession[s].status = "active"}
\* The stored active sessions of u that some active-session pointer names.
ReferencedActive(u) == {s \in ActiveRecords(u) : \E v \in Users : kvActive[v] = s}

\* C1 (as stated): each user has at most one stored session record whose
\* status is active.
C1_AtMostOneActiveRecord == \A u \in Users : Cardinality(ActiveRecords(u)) <= 1

\* C1 (amended): each user has at most one stored active session that an
\* active-session pointer names, and it is the target of the user's own
\* pointer; further active records of the user are named by no pointer.
C1_AtMostOneReferencedActive ==
  \A u \in Users :
    /\ Cardinality(ReferencedActive(u)) <= 1
    /\ \A s \in ReferencedActive(u) : kvActive[u] = s

C1_Witness ==
  \E u \in Users :
    /\ Cardinality(ActiveRecords(u)) = 2
    /\ Cardinality(ReferencedActive(u)) = 1

\* C2: when a user whose pointer names a stored active session starts again,
\* the write of the new session leaves the previous record unchanged under
\* another id, and the write of the pointer makes the new session, stored
\* with status active, the target while the previous one stays stored active.
C2_RestartOrphansPrevious ==
  [][\A p \in Procs :
       LET u == proc[p].user
           prev == kvActive[u]
           restart == prev # None /\ Stored(prev) /\ kvSession[prev].status = "active"
       IN /\ (StartSetSession(p) /\ restart) =>
               /\ proc[p].sid # prev
               /\ kvSession'[prev] = kvSession[prev]
          /\ (StartSetPointer(p) /\ restart) =>
               /\ kvActive'[u] = proc[p].sid
               /\ kvActive'[u] # prev
               /\ Stored(proc[p].sid) /\ kvSession[proc[p].sid].status = "active"
               /\ kvSession'[prev] = kvSession[prev]
               /\ resp'.status = "ok"]_vars

\* C3: once a session record is stored with status completed, no later store
\* write by submitAnswer or finishQuiz makes its status active again or
\* changes its completion timestamp.  (The claim says the same of
\* startSession, whose write under an already used session id is the subject
\* of C30.)
C3_CompletedStaysCompleted ==
  [][\A p \in Procs :
       LET s == proc[p].sid IN
       ((SubmitSetSession(p) \/ FinishSetSession(p))
          /\ Stored(s) /\ kvSession[s].status = "completed") =>
         /\ kvSession'[s].status = "completed"
         /\ kvSession'[s].completedAt = kvSession[s].completedAt]_vars

\* C4: each write of a session record by submitAnswer stores an index greater
\* than or equal to the index stored before it.
C4_IndexNeverDecreases ==
  [][\A p \in Procs :
       (SubmitSetSession(p) /\ Stored(proc[p].sid)) =>
         kvSession'[proc[p].sid].currentQuestion >= kvSession[proc[p].sid].currentQuestion]_vars

\* C5: a submitAnswer that finds a current question answers correct = TRUE
\* and points = 100 exactly when the submitted string is the question's
\* correctAnswer, and correct = FALSE and points = 0 for every other string;
\* totalScore is the score stored before plus the points.
C5_ExactMatchScores ==
  [][\A p \in Procs :
       SubmitSetSession(p) =>
         LET old == kvSession[proc[p].sid]
             q == old.questions[old.currentQuestion + 1]
             exact == proc[p].answer = q.correctAnswer
         IN /\ resp'.op = "submit" /\ resp'.status = "ok"
            /\ resp'.body.correct = exact
            /\ resp'.body.points = (IF exact THEN 100 ELSE 0)
            /\ resp'.body.totalScore = old.score + resp'.body.points]_vars

C5_Witness ==
  /\ resp.op = "submit" /\ resp.status = "ok"
  /\ resp.body.correct /\ resp.body.points = 100 /\ resp.body.totalScore = 200

\* C6: on the 2-question quiz with no team filter, one request at a time:
\* startSession returns totalQuestions = 2; the correct answer to the first
\* question returns {TRUE, 100, 100, TRUE}; a wrong answer to the second then
\* returns {FALSE, 0, 100, FALSE}; finishQuiz then returns finalScore = 100,
\* totalQuestions = 2, correctAnswers = 1.
C6_ScenarioA ==
  [][\A p \in Procs :
       LET old == proc[p].sess
           two == Len(old.questions) = 2
           exact == proc[p].answer = old.questions[old.currentQuestion + 1].correctAnswer
       IN /\ StartSetPointer(p) => resp'.status = "ok" /\ resp'.body.totalQuestions = 2
          /\ (SubmitSetSession(p) /\ two /\ old.answers = <<>> /\ exact) =>
               /\ resp'.body.correct /\ resp'.body.points = 100
               /\ resp'.body.totalScore = 100 /\ resp'.body.hasMoreQuestions
          /\ (SubmitSetSession(p) /\ two /\ Len(old.answers) = 1 /\ old.answers[1].correct /\ ~exact) =>
               /\ ~resp'.body.correct /\ resp'.body.points = 0
               /\ resp'.body.totalScore = 100 /\ ~resp'.body.hasMoreQuestions
          /\ (InvalidateDelTimestamp(p) /\ two /\ Len(old.answers) = 2
                /\ old.answers[1].correct /\ ~old.answers[2].correct) =>
               /\ resp'.status = "ok" /\ resp'.body.finalScore = 100
               /\ resp'.body.totalQuestions = 2 /\ resp'.body.correctAnswers = 1]_vars

\* start, correct answer, wrong answer, finish: four requests and no other.
C6_Witness ==
  /\ budget = MaxSoloRequests - 4
  /\ resp.op = "finish" /\ resp.status = "ok"
  /\ resp.body.finalScore = 100 /\ resp.body.totalQuestions = 2 /\ resp.body.correctAnswers = 1
  /\ \E s \in SessionIds :
       /\ Stored(s) /\ kvSession[s].status = "completed" /\ kvSession[s].userId = resp.user
       /\ Len(kvSession[s].answers) = 2
       /\ kvSession[s].answers[1].correct /\ ~kvSession[s].answers[2].correct

\* The session record with the correctAnswer of its questions replaced.
AltAnswers == {"a", "b", "c"}
WithAnswers(sess, alt) ==
  IF sess = None THEN None
  ELSE [sess EXCEPT !.questions =
          [i \in DOMAIN sess.questions |-> [sess.questions[i] EXCEPT !.correctAnswer = alt[sess.questions[i].id]]]]

\* C7: the response of getCurrentQuestion is the one it would give with any
\* other correctAnswer in the session's questions, and the question it
\* carries has the fields id, question (the prompt) and options only.
C7_NoAnswerLeak ==
  [][\A p \in Procs :
       CurrentGetSession(p) =>
         /\ \A alt \in [{"x1", "x2"} -> AltAnswers] :
              resp' = CurrentQuestionOf(proc[p].user, proc[p].sid,
                                        WithAnswers(kvSession[proc[p].sid], alt))
         /\ resp'.status = "ok" => DOMAIN resp'.body.question = {"id", "question", "options"}]_vars

C7_Witness ==
  /\ resp.op = "current" /\ resp.status = "ok"
  /\ resp.body.currentQuestion = 2 /\ resp.body.question.id \in {"x1", "x2"}

\* C8: no step of getCurrentQuestion writes to the store, and a
\* getCurrentQuestion that directly follows one of the same user, with no
\* other request in between, returns the same response.
C8_CurrentRepeats ==
  [][/\ \A p \in Procs :
          (CurrentGetSession(p) \/ \E u \in Users : CurrentGetPointer(p, u)) => UNCHANGED store
     /\ (resp.op = "current" /\ resp'.op = "current" /\ resp'.user = resp.user) => resp' = resp]_vars

\* start, getCurrentQuestion, getCurrentQuestion and the session untouched.
C8_Witness ==
  /\ budget = MaxSoloRequests - 3
  /\ resp.op = "current" /\ resp.status = "ok" /\ resp.body.currentQuestion = 1
  /\ kvActive[resp.user] # None
  /\ Stored(kvActive[resp.user]) /\ kvSession[kvActive[resp.user]].answers = <<>>
  /\ Cardinality({s \in SessionIds : Stored(s)}) = 1

\* C9: getCurrentQuestion fails exactly when the user has no pointer, or the
\* pointer names no stored record, or the record's status is not active, or
\* its index is at or past the end of its questions.
C9_CurrentFailsExactly ==
  [][\A p \in Procs :
       /\ \A u \in Users :
            CurrentGetPointer(p, u) =>
              IF kvActive[u] = None
                THEN resp'.op = "current" /\ resp'.user = u /\ resp'.status = "error"
                ELSE proc'[p].pc = "current_get_session" /\ resp' = resp
       /\ CurrentGetSession(p) =>
            LET sess == kvSession[proc[p].sid] IN
            /\ resp'.op = "current" /\ resp'.user = proc[p].user
            /\ resp'.status = "error" <=>
                 \/ sess = None
                 \/ sess.status # "active"
                 \/ sess.currentQuestion >= Len(sess.questions)
            /\ resp'.status = "ok" =>
                 resp'.body.question.id = sess.questions[sess.currentQuestion + 1].id]_vars

\* Every question answered, the session not finished: no more questions.
C9_Witness ==
  /\ resp = Err("current", "u1", "No more questions")
  /\ kvActive["u1"] # None
  /\ Stored(kvActive["u1"]) /\ kvSession[kvActive["u1"]].status = "active"
  /\ Len(kvSession[kvActive["u1"]].answers) = Len(kvSession[kvActive["u1"]].questions)

\* C10: submitAnswer fails, writing nothing, when the user has no pointer,
\* when the pointer names no stored record, when the record's status is not
\* active and when its index is past the end of its questions.
C10_SubmitFailsLikeCurrent ==
  [][\A p \in Procs :
       /\ \A u \in Users, a \in AnswerTexts :
            (SubmitGetPointer(p, u, a) /\ kvActive[u] = None) =>
              resp'.op = "submit" /\ resp'.status = "error" /\ UNCHANGED store
       /\ (SubmitGetSession(p)
             /\ LET sess == kvSession[proc[p].sid] IN
                \/ sess = None
                \/ sess.status # "active"
                \/ sess.currentQuestion >= Len(sess.questions)) =>
            /\ proc'[p].pc = "idle"
            /\ resp'.op = "submit" /\ resp'.status = "error" /\ UNCHANGED store]_vars

\* No stored question of the quiz has the filter's team or team "general"
\* (every stored question passes when no filter is given).
C11_NoneRemains(quizId, team) ==
  LET ids == QuizStore(quizId).questionIds IN
  ~\E i \in DOMAIN ids :
     /\ QuestionStore(ids[i]) # None
     /\ team = NoTeam \/ QuestionStore(ids[i]).team \in {team, "general"}

\* C11: startSession answers with an error and writes nothing (no session
\* record, no pointer; every stored record as before, no write pending) when
\* quizId is empty, when it names no quiz, when the quiz has no question ids,
\* and when no question of the quiz remains after the team filter.
C11_FailedStartWritesNothing ==
  [][\A p \in Procs, u \in Users, quizId \in QuizIds, team \in TeamFilters :
       (/\ StartSession(p, u, quizId, team)
        /\ \/ quizId = ""
           \/ QuizStore(quizId) = None
           \/ Len(QuizStore(quizId).questionIds) = 0
           \/ C11_NoneRemains(quizId, team)) =>
         /\ resp'.op = "start" /\ resp'.user = u /\ resp'.status = "error"
         /\ proc'[p].pc = "idle"
         /\ UNCHANGED store]_vars

\* A start is refused for the team filter while the user's earlier session
\* is still stored active and is still the pointer's target.
C11_Witness ==
  /\ resp = Err("start", "u1", "No questions available for this team")
  /\ kvActive["u1"] # None
  /\ Stored(kvActive["u1"]) /\ kvSession[kvActive["u1"]].status = "active"
  /\ Cardinality({s \in SessionIds : Stored(s)}) = 1

\* The request in slot p is a finishQuiz past its read of the session record.
InFinish(p) ==
  proc[p].pc \in {"finish_set_session", "finish_del_pointer", "update_get_profile",
                  "update_set_profile", "track_get_profile", "track_get_fastest",
                  "track_set_fastest", "finish_set_history", "invalidate_del_cache",
                  "invalidate_del_timestamp"}

\* What finishQuiz of the request in slot p does to its session and pointer:
\* the record is written completed with a completion timestamp, the pointer
\* is deleted, no other step touches either, and both are so at the return.
C12_SessionAndPointer(p) ==
  LET u == proc[p].user
      sid == proc[p].sid
  IN /\ FinishSetSession(p) =>
          kvSession'[sid].status = "completed" /\ kvSession'[sid].completedAt # NoTime
     /\ FinishDelPointer(p) => kvActive'[u] = None
     /\ (InFinish(p) /\ kvSession'[sid] # kvSession[sid]) => FinishSetSession(p)
     /\ (InFinish(p) /\ kvActive'[u] # kvActive[u]) => FinishDelPointer(p)
     /\ InvalidateDelTimestamp(p) =>
          /\ resp'.op = "finish" /\ resp'.status = "ok"
          /\ kvSession[sid].status = "completed" /\ kvSession[sid].completedAt # NoTime
          /\ kvActive[u] = None

C13_FailedFinishWritesNothing ==
  [][\A p \in Procs :
       /\ \A u \in Users :
            (FinishGetPointer(p, u) /\ kvActive[u] = None) =>
              /\ resp' = Err("finish", u, "No active quiz session")
              /\ proc'[p].pc = "idle"
              /\ UNCHANGED store
       /\ (FinishGetSession(p) /\ kvSession[proc[p].sid] = None) =>
            /\ resp' = Err("finish", proc[p].user, "Session not found")
            /\ proc'[p].pc = "idle"
            /\ UNCHANGED store
       /\ FinishDelPointer(p) => kvActive'[proc[p].user] = None]_vars

\* start, finishQuiz, finishQuiz again: the second one fails, and the one
\* game stays credited once.
C13_Witness ==
  /\ resp = Err("finish", "u1", "No active quiz session")
  /\ budget = MaxRaceRequests - 3
  /\ kvProfile["u1"].gamesPlayed = 1
  /\ \E s \in SessionIds : Stored(s) /\ kvSession[s].status = "completed"
  /\ Cardinality(kvHistory) = 1
\* C14: in every step each profile's totalScore and gamesPlayed stay or grow,
\* and a profile changes only in updateUserScore's write.
C14_TotalsOnlyGrow ==
  [][\A u \in Users :
       kvProfile[u] # None =>
         /\ kvProfile'[u] # None
         /\ kvProfile'[u].totalScore >= kvProfile[u].totalScore
         /\ kvProfile'[u].gamesPlayed >= kvProfile[u].gamesPlayed
         /\ kvProfile'[u] # kvProfile[u] => \E p \in Procs : UpdateSetProfile(p)]_vars
RunOf(sess) == [durationMs |-> sess.completedAt - sess.startedAt, score |-> sess.score]

\* Run a is faster than run b, or has the higher score.
Better(a, b) ==
  \/ a.durationMs > 0 /\ (b.durationMs = 0 \/ a.durationMs < b.durationMs)
  \/ a.score > b.score

CompletedRuns(q) ==
  {s \in SessionIds : /\ Stored(s) /\ kvSession[s].quizId = q
                      /\ kvSession[s].status = "completed"
                      /\ kvProfile[kvSession[s].userId] # None}

ShowsTotals(ranking, u) ==
  \E i \in DOMAIN ranking :
    /\ ranking[i].userId = u
    /\ ranking[i].totalScore = kvProfile[u].totalScore
    /\ ranking[i].gamesPlayed = kvProfile[u].gamesPlayed

\* A game of the player is credited and no reset is in flight.  The player's
\* requests run in slot "p1" one after another, so a ranking read in slot
\* "p1" has started after the finish-quiz that credited the game returned.
C19_Credited ==
  /\ kvProfile["u1"].gamesPlayed > 0
  /\ proc["p2"].pc \notin {"reset_set_profile", "reset_del_cache", "reset_del_timestamp",
                           "reset_get_fastest", "reset_mdel_fastest"}

C20_HitOnlyWithinTtl ==
  [][\A p \in Procs :
       /\ RankGetTimestamp(p) =>
            /\ proc'[p].pc = "idle" <=>
                 /\ proc[p].rank # None /\ kvCacheTs # NoTime
                 /\ now - kvCacheTs <= CACHE_TTL_MS
            /\ proc'[p].pc \in {"idle", "rank_calculate"}
            /\ proc'[p].pc = "idle" => resp'.body.ranking = proc[p].rank.list
            /\ UNCHANGED store
       /\ RankCalculate(p) => proc'[p].pc = "rank_set_cache" /\ proc'[p].rank # None
       /\ RankSetCache(p) =>
            /\ kvCache' = proc[p].rank
            /\ proc'[p].pc = "rank_set_timestamp"
       /\ RankSetTimestamp(p) =>
            /\ kvCacheTs' = now
            /\ resp' = Ok("ranking", Null, [ranking |-> proc[p].rank.list])]_vars

\* Two ranking reads and nothing else: the list cached at 0 is 30000 ms old
\* and is still the stored one.
C20_Witness ==
  /\ resp.op = "ranking" /\ resp.status = "ok"
  /\ kvCache # None /\ resp.body.ranking = Parse(kvCache)
  /\ kvCacheTs = 0 /\ now - kvCacheTs = CACHE_TTL_MS
  /\ \A p \in Procs : proc[p].pc = "idle"
  /\ budget = MaxRankRequests - 2

\* C30: session ids are unique: the session record a startSession writes is
\* stored under an id that holds no record yet, and the ids two successful
\* startSession calls return differ.
C30_StartNeverOverwrites ==
  [][\A p \in Procs :
       /\ StartSetSession(p) => kvSession[proc[p].sid] = None
       /\ (StartSetPointer(p) /\ resp.op = "start" /\ resp.status = "ok") =>
            resp'.body.sessionId # resp.body.sessionId]_vars

\* The request in slot p has read the session record, and since then the
\* record stored under that id has been replaced by the write of another
\* submitAnswer that had read the same record.
C28_OtherWroteFirst(p) ==
  LET read == proc[p].sess
      stored == kvSession[proc[p].sid]
  IN /\ proc[p].pc = "submit_set_session"
     /\ stored # None
     /\ stored.startedAt = read.startedAt /\ stored.status = read.status
     /\ stored.currentQuestion = read.currentQuestion + 1
     /\ Len(stored.answers) = Len(read.answers) + 1
     /\ SubSeq(stored.answers, 1, Len(read.answers)) = read.answers

\* C28: of two submitAnswer requests of one user that both read the session
\* record before either writes it, both return success, and after the later
\* write the stored record is the record they read with the index advanced
\* by one, the later request's answer alone appended, and the score raised
\* by the later request's points alone.
C28_LaterWriteWins ==
  [][\A p \in Procs :
       /\ SubmitSetSession(p) => resp'.status = "ok" /\ resp'.op = "submit"
       /\ (SubmitSetSession(p) /\ C28_OtherWroteFirst(p)) =>
            LET read == proc[p].sess
                q == read.questions[read.currentQuestion + 1]
                points == IF proc[p].answer = q.correctAnswer THEN 100 ELSE 0
                new == kvSession'[proc[p].sid]
            IN /\ new.currentQuestion = read.currentQuestion + 1
               /\ Len(new.answers) = Len(read.answers) + 1
               /\ SubSeq(new.answers, 1, Len(read.answers)) = read.answers
               /\ new.answers[Len(new.answers)].answer = proc[p].answer
               /\ new.score = read.score + points
               /\ resp'.body.totalScore = new.score]_vars

\* The first of the two, with the correct answer, has written and returned
\* its 100 points; the second, with a wrong answer, read before that write
\* and has yet to write.
C28_Witness ==
  /\ C28_OtherWroteFirst("p1")
  /\ proc["p1"].answer = "b" /\ proc["p1"].sess.currentQuestion = 0
  /\ kvSession[proc["p1"].sid].score = 100
  /\ resp.op = "submit" /\ resp.status = "ok" /\ resp.body.points = 100
  /\ proc["p2"].pc = "idle"
  /\ budget = MaxRaceRequests - 3

\* The steps of finishQuiz that follow the write of the session record, and
\* those that follow the delete of the pointer.
C29_AfterSetSession ==
  {"finish_del_pointer", "update_get_profile", "update_set_profile", "track_get_profile",
   "track_get_fastest", "track_set_fastest", "finish_set_history"}
C29_AfterDelPointer == C29_AfterSetSession \ {"finish_del_pointer"}

\* With finishQuiz stopped after any step: once past the write of the
\* session the record is stored completed, and once past the delete of the
\* pointer, so before and after the credit, the pointer is absent.
C29_EarlierWritesStand ==
  \A p \in Procs :
    /\ proc[p].pc \in C29_AfterSetSession =>
         /\ kvSession[proc[p].sid] = proc[p].sess
         /\ kvSession[proc[p].sid].status = "completed"
    /\ proc[p].pc \in C29_AfterDelPointer => kvActive[proc[p].user] = None

\* The store writes of finishQuiz follow one another in the order session,
\* pointer, profile, fastest record, history record, and each leaves what
\* the earlier ones wrote as it is.
C29_StepOrder ==
  \A p \in Procs :
    /\ FinishSetSession(p) => proc'[p].pc = "finish_del_pointer"
    /\ FinishDelPointer(p) =>
         /\ proc'[p].pc = "update_get_profile"
         /\ UNCHANGED kvSession
    /\ UpdateGetProfile(p) => proc'[p].pc \in {"update_set_profile", "track_get_profile"}
    /\ UpdateSetProfile(p) =>
         /\ proc'[p].pc = "track_get_profile"
         /\ kvProfile'[proc[p].user].gamesPlayed = kvProfile[proc[p].user].gamesPlayed + 1
         /\ UNCHANGED <<kvSession, kvActive>>
    /\ TrackGetProfile(p) => proc'[p].pc \in {"track_get_fastest", "finish_set_history"}
    /\ TrackGetFastest(p) => proc'[p].pc \in {"track_set_fastest", "finish_set_history"}
    /\ TrackSetFastest(p) =>
         /\ proc'[p].pc = "finish_set_history"
         /\ UNCHANGED <<kvSession, kvActive, kvProfile>>
    /\ FinishSetHistory(p) =>
         /\ \E h \in kvHistory' : h.value.sessionId = proc[p].sid /\ h.value.score = proc[p].sess.score
         /\ UNCHANGED <<kvSession, kvActive, kvProfile, kvFastest>>

\* C29: finishQuiz writes the session as completed, deletes the pointer,
\* credits the profile, updates the fastest record and writes the history
\* record, in this order; stopped after any step, the profile is credited
\* only after the session was stored completed and the pointer deleted, and
\* no step undoes an earlier one.
C29_OrderedNotRolledBack == []C29_EarlierWritesStand /\ [][C29_StepOrder]_vars

\* Session stored completed, pointer deleted, profile not credited.
C29_Witness ==
  /\ proc["p1"].pc = "update_set_profile" /\ proc["p1"].user = "u1"
  /\ kvSession[proc["p1"].sid].status = "completed"
  /\ kvSession[proc["p1"].sid].score = 100
  /\ kvActive["u1"] = None
  /\ kvProfile["u1"].gamesPlayed = 0 /\ kvProfile["u1"].totalScore = 0

\* The place of user u in the scan, 0 when the scan has no profile of u.
PlaceIn(scan, u) ==
  IF \E i \in DOMAIN scan : scan[i].id = u
    THEN CHOOSE i \in DOMAIN scan : scan[i].id = u
  ELSE 0

\* C22: the list getGlobalRanking computes on a miss has exactly one entry,
\* with the stored totals, for each profile with gamesPlayed > 0 and none for
\* any other user; its totalScore values do not increase along the list,
\* entries of equal totalScore stand in the order of the profile scan, and
\* the positions are 1..n in list order.
C22_RecomputedRanking ==
  [][\A p \in Procs : RankCalculate(p) =>
       LET ranking == Parse(proc'[p].rank)
           scan == proc'[p].todo
           n == Len(ranking)
       IN /\ \A u \in Users :
               Cardinality({i \in 1..n : ranking[i].userId = u})
                 = IF kvProfile[u] # None /\ kvProfile[u].gamesPlayed > 0 THEN 1 ELSE 0
          /\ \A i \in 1..n :
               /\ ranking[i].position = i
               /\ ranking[i].totalScore = kvProfile[ranking[i].userId].totalScore
               /\ ranking[i].gamesPlayed = kvProfile[ranking[i].userId].gamesPlayed
          /\ \A i, j \in 1..n : i < j =>
               /\ ranking[i].totalScore >= ranking[j].totalScore
               /\ ranking[i].totalScore = ranking[j].totalScore =>
                    PlaceIn(scan, ranking[i].userId) < PlaceIn(scan, ranking[j].userId)]_vars

\* A list was computed from a scan that returned u2 before u1: u2, with the
\* same totalScore as u1 from fewer games, stands first.
C22_Witness ==
  /\ \E p \in Procs :
       /\ proc[p].pc = "rank_set_cache"
       /\ Len(Parse(proc[p].rank)) = 2
       /\ Parse(proc[p].rank)[1].userId = "u2" /\ Parse(proc[p].rank)[2].userId = "u1"
       /\ Parse(proc[p].rank)[1].totalScore = Parse(proc[p].rank)[2].totalScore
  /\ kvProfile["u1"].gamesPlayed = 3 /\ kvProfile["u2"].gamesPlayed = 1

\* The list getGlobalRanking hands to the route, at the step that returns.
C23_Returns(p) ==
  \/ RankGetTimestamp(p) /\ proc'[p].pc = "idle"
  \/ RankSetTimestamp(p)

\* C23: getTopPlayers(limit) returns the empty list for limit <= 0, the
\* first limit entries of the ranking for 0 < limit <= length, and the whole
\* ranking for limit > length.
C23_TopPlayers ==
  [][\A p \in Procs : (C23_Returns(p) /\ proc[p].call = "top") =>
       LET ranking == Parse(proc[p].rank)
           limit == proc[p].limit
       IN resp'.body.topPlayers =
            IF limit <= 0 THEN <<>>
            ELSE IF limit <= Len(ranking) THEN SubSeq(ranking, 1, limit)
            ELSE ranking]_vars

\* C24: getUserPosition returns the position of the user's entry in the list
\* getGlobalRanking returns to it, cached or recomputed, and null when the
\* list has no entry of the user, as for a user with no game played.
C24_UserPosition ==
  [][\A p \in Procs : (C23_Returns(p) /\ proc[p].call = "position") =>
       LET ranking == Parse(proc[p].rank)
           u == proc[p].user
           own == {i \in DOMAIN ranking : ranking[i].userId = u}
       IN /\ resp'.op = "position" /\ resp'.status = "ok"
          /\ \A i \in own : resp'.body.position = ranking[i].position
          /\ own = {} => resp'.body.position = NoPosition
          /\ (RankSetTimestamp(p) /\ (kvProfile[u] = None \/ kvProfile[u].gamesPlayed = 0)) =>
               resp'.body.position = NoPosition]_vars

\* The user whose entry is second in the cached list was told position 2.
C24_Witness ==
  /\ resp.op = "position" /\ resp.status = "ok" /\ resp.body.position = 2
  /\ kvCache # None /\ Len(Parse(kvCache)) = 2
  /\ Parse(kvCache)[2].userId = resp.user

\* What getUserStats answers apart from the average.
C25_ZerosOrTotals(p, u) ==
  /\ resp'.op = "stats" /\ resp'.status = "ok"
  /\ UNCHANGED store
  /\ resp'.body.stats.totalScore = IF kvProfile[u] = None THEN 0 ELSE kvProfile[u].totalScore
  /\ resp'.body.stats.gamesPlayed = IF kvProfile[u] = None THEN 0 ELSE kvProfile[u].gamesPlayed
  /\ (kvProfile[u] = None \/ kvProfile[u].gamesPlayed = 0) =>
       resp'.body.stats = [totalScore |-> 0, gamesPlayed |-> 0, averageScore |-> [int |-> 0, frac |-> 0]]

\* The average answered, in tenths.
C25_Tenths(average) == 10 * average.int + average.frac

\* C25 (as stated): getUserStats answers zeros without a profile and with no
\* game played, otherwise the profile's totals with averageScore equal to
\* totalScore / gamesPlayed, it does not fail and writes nothing.
C25_StatsExactAverage ==
  [][\A p \in Procs, u \in Users : StatsGetProfile(p, u) =>
       /\ C25_ZerosOrTotals(p, u)
       /\ (kvProfile[u] # None /\ kvProfile[u].gamesPlayed > 0) =>
            C25_Tenths(resp'.body.stats.averageScore) * kvProfile[u].gamesPlayed
              = 10 * kvProfile[u].totalScore]_vars

\* C25 (amended): the same, with averageScore the tenth nearest to
\* totalScore / gamesPlayed.
C25_StatsRoundedAverage ==
  [][\A p \in Procs, u \in Users : StatsGetProfile(p, u) =>
       /\ C25_ZerosOrTotals(p, u)
       /\ (kvProfile[u] # None /\ kvProfile[u].gamesPlayed > 0) =>
            LET off == C25_Tenths(resp'.body.stats.averageScore) * kvProfile[u].gamesPlayed
                         - 10 * kvProfile[u].totalScore
            IN 2 * off <= kvProfile[u].gamesPlayed /\ 2 * off > - kvProfile[u].gamesPlayed]_vars

\* 100 points in three games are answered as 33.3.
C25_Witness ==
  /\ resp.op = "stats" /\ resp.status = "ok"
  /\ resp.body.stats = [totalScore |-> 100, gamesPlayed |-> 3, averageScore |-> [int |-> 33, frac |-> 3]]
  /\ kvProfile[resp.user].gamesPlayed = 3

\* Every game of the player was credited more than 30000 ms ago: the
\* history record of a game is written after its credit, under the time of
\* its write.
C21_CreditsOlderThanTtl ==
  /\ \E h \in kvHistory : h.key.user = "u1"
  /\ \A h \in kvHistory : h.key.user = "u1" => now - h.key.time > CACHE_TTL_MS

\* C21: a getGlobalRanking that starts more than 30000 ms after a credit
\* returns a list that includes it, also when a getGlobalRanking that had
\* read the profiles before the credit raced with invalidateCache.  (A
\* ranking read in slot "p1" starts and returns at one clock value.)
C21_StaleAtMostTtl ==
  [][(C23_Returns("p1") /\ proc["p1"].call = "ranking"
        /\ C21_CreditsOlderThanTtl /\ C19_Credited /\ ~InReset("p2")) =>
       ShowsTotals(resp'.body.ranking, "u1")]_vars

\* Every stored profile has zero totals and the cached list and its
\* timestamp are absent, so a getGlobalRanking that starts now misses and
\* computes the empty list.
C26_AllZeroNoCache ==
  /\ \A u \in Users : kvProfile[u] # None =>
       kvProfile[u].totalScore = 0 /\ kvProfile[u].gamesPlayed = 0
  /\ kvCache = None /\ kvCacheTs = NoTime
  /\ GetRankingFromCache(kvCache, kvCacheTs, now) = None
  /\ \A scan \in GetByPrefix(kvProfile) : CalculateRanking(scan) = <<>>

\* resetAllRankings of the request in slot p completes, or its route returns.
C26_Completes(p) ==
  \/ ResetDelTimestamp(p)
  \/ ResetGetFastestKeys(p) /\ proc'[p].pc = "idle"
  \/ ResetMdelFastest(p)

\* C26 (as stated): when resetAllRankings has completed, every profile has
\* zero totals, the cached list and its timestamp are absent and the next
\* getGlobalRanking returns the empty list, whatever requests were in flight
\* while the reset ran.
C26_ResetZeroesWhateverRuns ==
  [][\A p \in Procs : C26_Completes(p) => C26_AllZeroNoCache']_vars

\* C26 (amended): the same for a resetAllRankings that runs with no other
\* request in flight, as every reset in slot "p1" does.
C26_ResetAloneZeroes ==
  [][/\ C26_Completes("p1") => C26_AllZeroNoCache'
     /\ \A p \in Procs : ResetSetProfile(p) =>
          LET id == Head(proc[p].todo).id IN
          kvProfile'[id].totalScore = 0 /\ kvProfile'[id].gamesPlayed = 0]_vars

\* A game was credited and its fastest record stored; the reset in slot
\* "p1" has zeroed the profile and left no cached list and no timestamp.
C26_Witness ==
  /\ proc["p1"].pc = "reset_get_fastest"
  /\ \E h \in kvHistory : h.key.user = "u1"
  /\ kvFastest["q1"] # None
  /\ C26_AllZeroNoCache
  /\ budget = MaxAdminRequests - 4

\* C27: a resetAllFastest that runs with no other request in flight deletes
\* every fastest record and nothing else: after it getFastestByQuiz returns
\* null for every quiz, and sessions, pointers, profiles, history and the
\* ranking cache are as before; on a store with no fastest record, as on a
\* second run, it changes nothing and returns without failing.
C27_ResetAllFastest ==
  [][/\ ResetGetFastestKeys("p1") =>
          /\ UNCHANGED store
          /\ (\A q \in Quizzes : GetFastestByQuiz(kvFastest, q) = None) =>
               resp' = Ok("reset", Null, ResetResult) /\ proc'["p1"].pc = "idle"
          /\ (\E q \in Quizzes : GetFastestByQuiz(kvFastest, q) # None) =>
               proc'["p1"].pc = "reset_mdel_fastest"
     /\ ResetMdelFastest("p1") =>
          /\ \A q \in Quizzes : GetFastestByQuiz(kvFastest', q) = None
          /\ UNCHANGED <<kvSession, kvActive, kvProfile, kvHistory, kvCache, kvCacheTs>>
          /\ resp' = Ok("reset", Null, ResetResult)]_vars

\* The reset has deleted the record of the player's game and returned.
C27_Witness ==
  /\ resp = Ok("reset", Null, ResetResult)
  /\ \E h \in kvHistory : h.key.user = "u1"
  /\ \A q \in Quizzes : GetFastestByQuiz(kvFastest, q) = None
  /\ \A p \in Procs : proc[p].pc = "idle"
  /\ budget = MaxAdminRequests - 3

\* The sequence l holds each element of the sequence of distinct elements
\* expected exactly once, and nothing else.
IsPermutation(l, expected) ==
  /\ Len(l) = Len(expected)
  /\ \A i \in DOMAIN expected : Cardinality({j \in DOMAIN l : l[j] = expected[i]}) = 1

\* C31: the list startSession stores is a permutation of the quiz's stored
\* questions that pass the team filter, the totalQuestions it returns is the
\* length of that list, and no write of the session record by submitAnswer or
\* finishQuiz changes the stored list or its order.
C31_QuestionListFixed ==
  [][\A p \in Procs :
       LET s == proc[p].sid IN
       /\ StartSetSession(p) =>
            IsPermutation(kvSession'[s].questions,
                          FilterTeam(Mget(QuizStore(s.quiz).questionIds), NoTeam))
       /\ StartSetPointer(p) =>
            resp'.body.totalQuestions = Len(proc[p].sess.questions)
       /\ ((SubmitSetSession(p) \/ FinishSetSession(p)) /\ Stored(s)) =>
            kvSession'[s].questions = kvSession[s].questions]_vars

\* C32: a submitAnswer answers hasMoreQuestions = TRUE exactly when the
\* index it has incremented is less than the number of questions; with one
\* request at a time the answers recorded in a session count its successful
\* submissions, so on a session of n questions submission k answers TRUE for
\* k < n and FALSE for k = n, and there is no submission n + 1.
C32_HasMoreUntilLast ==
  [][\A p \in Procs :
       SubmitSetSession(p) =>
         LET read == proc[p].sess
             n == Len(read.questions)
             k == Len(kvSession'[proc[p].sid].answers)
         IN /\ resp'.op = "submit" /\ resp'.status = "ok"
            /\ resp'.body.hasMoreQuestions = (read.currentQuestion + 1 < n)
            /\ k = Len(kvSession[proc[p].sid].answers) + 1
            /\ k <= n
            /\ resp'.body.hasMoreQuestions = (k < n)]_vars

\* The second submission on the two questions of quiz q1 has answered FALSE.
C32_Witness ==
  /\ resp.op = "submit" /\ resp.status = "ok"
  /\ ~resp.body.hasMoreQuestions
  /\ \E u \in Users :
       /\ kvActive[u] # None
       /\ Len(kvSession[kvActive[u]].questions) = 2
       /\ Len(kvSession[kvActive[u]].answers) = 2

\* C33: each write of a session record by submitAnswer or finishQuiz stores a
\* score greater than or equal to the score stored before it.
C33_ScoreNeverDecreases ==
  [][\A p \in Procs :
       ((SubmitSetSession(p) \/ FinishSetSession(p)) /\ Stored(proc[p].sid)) =>
         kvSession'[proc[p].sid].score >= kvSession[proc[p].sid].score]_vars

\* The request in slot p makes a step of a quiz or statistics operation.
C34_PlayerStep(p) ==
  /\ proc'[p] # proc[p]
  /\ proc[p].call # "ranking" /\ proc'[p].call # "ranking"

\* C34: a step of startSession, getCurrentQuestion, submitAnswer, finishQuiz
\* or getUserStats for user u leaves every other user's pointer, session
\* records, profile and history records unchanged; it changes a fastest
\* record only in trackFastestPlayer and only that of the session's quiz, and
\* the cached list and its timestamp only in the invalidation that follows
\* finishQuiz.  A request that returns from its first step, as every
\* getUserStats does, changes nothing in the store.
C34_OtherUsersUntouched ==
  [][/\ (\A p \in Procs : proc'[p] = proc[p]) => UNCHANGED store
     /\ \A p \in Procs :
          C34_PlayerStep(p) =>
            LET u == IF proc[p].user # Null THEN proc[p].user ELSE proc'[p].user IN
            /\ \A v \in Users \ {u} :
                 /\ kvActive'[v] = kvActive[v]
                 /\ kvProfile'[v] = kvProfile[v]
                 /\ \A s \in SessionIds : s.user = v => kvSession'[s] = kvSession[s]
                 /\ {h \in kvHistory' : h.key.user = v} = {h \in kvHistory : h.key.user = v}
            /\ \A q \in Quizzes :
                 kvFastest'[q] # kvFastest[q] =>
                   proc[p].pc = "track_set_fastest" /\ q = proc[p].sess.quizId
            /\ kvCache' # kvCache => proc[p].pc = "invalidate_del_cache"
            /\ kvCacheTs' # kvCacheTs => proc[p].pc = "invalidate_del_timestamp"]_vars

\* User u1 finishes a game on q1 while u2 has an active session: the cached
\* list a ranking read stored has been deleted by the invalidation, u1's
\* fastest record and u2's pointer, session and profile are stored.
C34_Witness ==
  /\ proc["p1"].pc = "invalidate_del_timestamp" /\ proc["p1"].user = "u1"
  /\ kvCache = None /\ kvCacheTs # NoTime
  /\ kvFastest["q1"] # None /\ kvFastest["q1"].userId = "u1"
  /\ kvActive["u2"] # None /\ kvSession[kvActive["u2"]].status = "active"
  /\ kvProfile["u2"] # None

\* C35: the history write of finishQuiz adds one record to those stored
\* and leaves every record stored before it as it was, also when two
\* finishQuiz calls of one user reach the write at the same millisecond.
C35_HistoryAppendOnly ==
  [][\A p \in Procs :
       FinishSetHistory(p) =>
         /\ kvHistory \subseteq kvHistory'
         /\ Cardinality(kvHistory') = Cardinality(kvHistory) + 1]_vars

\* The request in slot p makes one of the two deletes of invalidateCache.
C36_DeletesCache(p) == InvalidateDelCache(p) \/ ResetDelCache(p)
C36_DeletesTimestamp(p) == InvalidateDelTimestamp(p) \/ ResetDelTimestamp(p)

\* C36: the two steps of invalidateCache leave the cached list, then its
\* timestamp, absent, whether or not they were stored, and change no other
\* key; a stored list or timestamp becomes absent in no other step: a read
\* that finds the cache expired leaves both stored and goes on to compute
\* the list.  The finish route reaches invalidateCache from the last store
\* call of a finishQuiz that succeeded only, and a finishQuiz that fails
\* leaves the store as it is.
C36_OnlyInvalidateErases ==
  [][/\ \A p \in Procs :
          /\ C36_DeletesCache(p) =>
               kvCache' = None
               /\ UNCHANGED <<kvSession, kvActive, kvProfile, kvFastest, kvHistory, kvCacheTs>>
          /\ C36_DeletesTimestamp(p) =>
               kvCacheTs' = NoTime
               /\ UNCHANGED <<kvSession, kvActive, kvProfile, kvFastest, kvHistory, kvCache>>
          /\ (RankGetTimestamp(p) /\ proc[p].rank # None /\ kvCacheTs # NoTime
                /\ CacheExpired(kvCacheTs, now)) =>
               UNCHANGED store /\ proc'[p].pc = "rank_calculate"
          /\ (proc'[p].pc = "invalidate_del_cache" /\ proc[p].pc # "invalidate_del_cache") =>
               FinishSetHistory(p)
          /\ (((\E u \in Users : FinishGetPointer(p, u)) \/ FinishGetSession(p))
                /\ proc'[p].pc = "idle") =>
               resp'.op = "finish" /\ resp'.status = "error" /\ UNCHANGED store
     /\ (kvCache # None /\ kvCache' = None) => \E p \in Procs : C36_DeletesCache(p)
     /\ (kvCacheTs # NoTime /\ kvCacheTs' = NoTime) => \E p \in Procs : C36_DeletesTimestamp(p)]_vars

\* After a game whose finish invalidated the cache, a list cached at 0 is
\* still stored at 30001, and a read that found it expired computes the list.
C36_Witness ==
  /\ \E h \in kvHistory : h.key.user = "u1"
  /\ kvCache # None /\ kvCacheTs = 0 /\ now = CACHE_TTL_MS + 1
  /\ \E p \in Procs : proc[p].pc = "rank_calculate"

RECURSIVE SumPoints(_)
SumPoints(answers) ==
  IF answers = <<>> THEN 0 ELSE Head(answers).points + SumPoints(Tail(answers))

\* The score of a record is 100 for each answer marked correct and the sum
\* of the answers' points, and the record holds one answer for each index
\* passed.
C37_Consistent(sess) ==
  /\ sess.score = 100 * CorrectAnswers(sess.answers)
  /\ sess.score = SumPoints(sess.answers)
  /\ Len(sess.answers) = sess.currentQuestion

C37_StoredConsistent == \A s \in SessionIds : Stored(s) => C37_Consistent(kvSession[s])

C37_FinishReturnsHundreds ==
  \A p \in Procs :
    InvalidateDelTimestamp(p) =>
      /\ resp'.op = "finish" /\ resp'.status = "ok"
      /\ resp'.body.finalScore = 100 * resp'.body.correctAnswers

\* C37: in every reachable state, whatever the interleaving of the requests
\* of one user, every stored session record has score = 100 x (answers
\* marked correct) = sum of the answers' points and as many answers as its
\* index; every finishQuiz returns finalScore = 100 x correctAnswers.
C37_ScoreMatchesAnswers == []C37_StoredConsistent /\ [][C37_FinishReturnsHundreds]_vars

\* A finishQuiz has returned 100 for a session with two recorded answers,
\* one of them correct.
C37_Witness ==
  /\ resp.op = "finish" /\ resp.status = "ok"
  /\ resp.body.finalScore = 100 /\ resp.body.correctAnswers = 1
  /\ \E s \in SessionIds :
       /\ Stored(s) /\ kvSession[s].status = "completed"
       /\ Len(kvSession[s].answers) = 2 /\ kvSession[s].score = 100

C38_WithinList ==
  \A s \in SessionIds :
    Stored(s) =>
      /\ kvSession[s].currentQuestion <= Len(kvSession[s].questions)
      /\ Len(kvSession[s].answers) <= Len(kvSession[s].questions)

C38_SubmitPastEndFails ==
  \A p \in Procs :
    (SubmitGetSession(p) /\ Stored(proc[p].sid)
       /\ kvSession[proc[p].sid].currentQuestion = Len(kvSession[proc[p].sid].questions)) =>
      /\ resp'.op = "submit" /\ resp'.status = "error"
      /\ proc'[p].pc = "idle"
      /\ UNCHANGED store

\* C38: in every reachable state the index of a stored session is at most
\* the length of its question list, and so is the number of its answers; a
\* submitAnswer that reads a record whose index equals the length fails and
\* writes nothing.
C38_IndexWithinList == []C38_WithinList /\ [][C38_SubmitPastEndFails]_vars

\* After two answers on the two questions of q1 a third submitAnswer has
\* failed; the record still holds two answers.
C38_Witness ==
  /\ resp.op = "submit" /\ resp.status = "error" /\ resp.body.error = "TypeError"
  /\ kvActive["u1"] # None /\ Stored(kvActive["u1"])
  /\ kvSession[kvActive["u1"]].currentQuestion = 2
  /\ Len(kvSession[kvActive["u1"]].answers) = 2
  /\ \A p \in Procs : proc[p].pc = "idle"

\* The finishQuiz in slot q has credited the session it completes.
C39_HasCredited(q) ==
  proc[q].pc \in {"track_get_profile", "track_get_fastest", "track_set_fastest",
                  "finish_set_history", "invalidate_del_cache", "invalidate_del_timestamp"}

\* C39: when a finishQuiz writes the profile while another finishQuiz of
\* the same user, on the same session, has already credited that session,
\* the profile's totals do not grow a second time.
C39_CreditedAtMostOnce ==
  [][\A p, q \in Procs :
       (UpdateSetProfile(p) /\ q # p /\ C39_HasCredited(q)
          /\ proc[q].sid = proc[p].sid /\ kvProfile[proc[p].user] # None) =>
         /\ kvProfile'[proc[p].user].gamesPlayed <= kvProfile[proc[p].user].gamesPlayed
         /\ kvProfile'[proc[p].user].totalScore <= kvProfile[proc[p].user].totalScore]_vars

\* C40: when finishQuiz deletes the pointer while the pointer names a
\* session other than the one this finishQuiz completes, stored with status
\* active by a startSession of the same user in between, the pointer to that
\* session stays.
C40_FinishKeepsNewPointer ==
  [][\A p \in Procs :
       LET u == proc[p].user IN
       (FinishDelPointer(p) /\ kvActive[u] # None /\ kvActive[u] # proc[p].sid
          /\ Stored(kvActive[u]) /\ kvSession[kvActive[u]].status = "active") =>
         kvActive'[u] = kvActive[u]]_vars
====
